---- MODULE Spec2Model ----
(***************************************************************************)
(* Model of scripts/fetch_gemini_docs.py: the documentation mirror.  One   *)
(* run of main() is a sequence of steps (load the manifest, discover,      *)
(* fetch and process each document, fetch and process the changelog,       *)
(* reconcile, save, exit); runs repeat over the same output directory.     *)
(* In Spec and IdemSpec a call of a fetch function is one step whose        *)
(* outcome is computed by RunLoop; CallSpec takes one call apart, one HTTP  *)
(* request at a time.  PureSpec applies validate_markdown_content and       *)
(* path_to_safe_filename on their own, to texts and paths of a bounded set. *)
(*                                                                         *)
(* Strings that the code inspects (origin paths, file names) are sequences *)
(* of one-character strings, so that prefix, suffix and replace are         *)
(* computed as the code computes them.                                      *)
(***************************************************************************)
EXTENDS Integers, Sequences, FiniteSets, TLC

(***************************************************************************)
(* Bounds of the model.                                                    *)
(***************************************************************************)
\* Number of runs of main() over the same output directory.
MaxRuns == 2
\* Number of pieces a text given to the validator is made of.
MaxPieces == 3

(***************************************************************************)
(* Program constants.                                                      *)
(***************************************************************************)
MAX_RETRIES == 3
RETRY_DELAY == 2
\* RATE_LIMIT_DELAY = 0.3 seconds, in milliseconds.
RATE_LIMIT_DELAY == 300
MAX_RETRY_DELAY == 30
\* The wait (seconds) below which a 403 with a reset header is waited out.
RESET_WAIT_LIMIT == 300
\* Retry-After default of a 429 without the header.
DEFAULT_RETRY_AFTER == 60
\* Minimum stripped length of a document, and of the changelog with header.
MIN_CONTENT_LEN == 50
\* content[:100], the part searched for '<html', and [:50], the lines scanned.
HTML_SCAN_LEN == 100
MAX_LINES == 50
MIN_CHANGELOG_LEN == 100
\* Minimum number of markdown indicators in the first 50 lines.
MIN_INDICATORS == 2
\* len(header) of the attribution header put before the changelog.
HEADER_LEN == 201
\* raise_for_status() raises for every status from 400 on.
HTTP_ERROR_FROM == 400

MANIFEST_FILE ==
    <<"d","o","c","s","_","m","a","n","i","f","e","s","t",".","j","s","o","n">>

DocsPrefix == <<"d","o","c","s","/">>
MdExt == <<".","m","d">>

(***************************************************************************)
(* String helpers (str.startswith, str.endswith, str.replace, <).          *)
(***************************************************************************)
StartsWith(s, p) == Len(s) >= Len(p) /\ SubSeq(s, 1, Len(p)) = p

EndsWith(s, p) == Len(s) >= Len(p) /\ SubSeq(s, Len(s) - Len(p) + 1, Len(s)) = p

RECURSIVE ReplaceSlash(_)
ReplaceSlash(s) ==
    IF s = <<>> THEN <<>>
    ELSE (IF Head(s) = "/" THEN <<"_", "_">> ELSE <<Head(s)>>) \o ReplaceSlash(Tail(s))

\* Code points of the characters that occur in the modelled paths.
Ord(ch) ==
    CASE ch = "." -> 46
      [] ch = "/" -> 47
      [] ch = "_" -> 95
      [] ch = "a" -> 97
      [] ch = "b" -> 98
      [] ch = "c" -> 99
      [] ch = "d" -> 100
      [] ch = "e" -> 101
      [] ch = "g" -> 103
      [] ch = "h" -> 104
      [] ch = "l" -> 108
      [] ch = "m" -> 109
      [] ch = "n" -> 110
      [] ch = "o" -> 111
      [] ch = "s" -> 115
      [] ch = "t" -> 116
      [] ch = "x" -> 120

\* Python's < on str: lexicographic by code point, a proper prefix is smaller.
RECURSIVE StrLess(_, _)
StrLess(s, t) ==
    IF t = <<>> THEN FALSE
    ELSE IF s = <<>> THEN TRUE
    ELSE IF Head(s) # Head(t) THEN Ord(Head(s)) < Ord(Head(t))
    ELSE StrLess(Tail(s), Tail(t))

\* sorted() of a set of distinct strings.
RECURSIVE Sorted(_)
Sorted(S) ==
    IF S = {} THEN <<>>
    ELSE LET least == CHOOSE x \in S : \A y \in S \ {x} : StrLess(x, y)
         IN  <<least>> \o Sorted(S \ {least})

(***************************************************************************)
(* path_to_safe_filename                                                   *)
(***************************************************************************)
\* The derivation without the removal of the extension before it is added back.
path_keeps_extension(file_path) ==
    LET noPrefix == IF StartsWith(file_path, DocsPrefix)
                    THEN SubSeq(file_path, Len(DocsPrefix) + 1, Len(file_path))
                    ELSE file_path
    IN  ReplaceSlash(noPrefix) \o MdExt

path_to_safe_filename(file_path) ==
    LET noPrefix == IF StartsWith(file_path, DocsPrefix)
                    THEN SubSeq(file_path, Len(DocsPrefix) + 1, Len(file_path))
                    ELSE file_path
        noExt == IF EndsWith(noPrefix, MdExt)
                 THEN SubSeq(noPrefix, 1, Len(noPrefix) - Len(MdExt))
                 ELSE noPrefix
    IN  ReplaceSlash(noExt) \o MdExt

\* fetch_changelog's fixed file name.
ChangelogName == <<"c","h","a","n","g","e","l","o","g",".","m","d">>

(***************************************************************************)
(* The origin: what one HTTP request can come back with.  A request either *)
(* raises a network error (kind "Timeout" or "ConnectionError") or gives a  *)
(* response with a status; hdr tells how the rate-limit header of the      *)
(* response reads ("absent", "int" with value val, or "garbage", a value    *)
(* int() rejects, such as an HTTP date).                                   *)
(***************************************************************************)
P_ab == <<"d","o","c","s","/","a","/","b",".","m","d">>
P_a__b == <<"d","o","c","s","/","a","_","_","b",".","m","d">>
P_changelog == <<"d","o","c","s","/","c","h","a","n","g","e","l","o","g",".","m","d">>
P_outside == <<"a","/","b",".","m","d">>
P_text == <<"d","o","c","s","/","a",".","t","x","t">>

\* The entries a tree listing is drawn from.
TreeUniverse ==
    { [path |-> P_ab, type |-> "blob"],
      [path |-> P_a__b, type |-> "blob"],
      [path |-> P_changelog, type |-> "blob"],
      [path |-> P_outside, type |-> "blob"],
      [path |-> P_text, type |-> "blob"],
      [path |-> P_ab, type |-> "tree"] }

\* A git tree lists a path once.
Trees ==
    { t \in SUBSET TreeUniverse : \A x, y \in t : x.path = y.path => x = y }

\* Response bodies: two markdown documents and an HTML error page.  A body is
\* named by a token; TextOf gives its characters.
Bodies == {"X", "Y", "HTML"}

Rep(ch, n) == [k \in 1..n |-> ch]

Doctype == <<"<","!","D","O","C","T","Y","P","E">>
HtmlTag == <<"<","h","t","m","l">>

TextOf(b) ==
    CASE b = "X" -> <<"#", " ">> \o Rep("a", 30) \o <<"\n", "-", " ">> \o Rep("a", 25)
      [] b = "Y" -> <<"#", "#", " ">> \o Rep("a", 77)
      [] b = "HTML" -> Doctype \o HtmlTag \o Rep("a", 106)

(***************************************************************************)
(* validate_markdown_content, on the characters of the content.            *)
(***************************************************************************)
\* The characters str.strip() removes, of those that occur in the texts.
Whitespace == {" ", "\n"}

\* p in s
Contains(s, p) ==
    \E k \in 1..(Len(s) - Len(p) + 1) : SubSeq(s, k, k + Len(p) - 1) = p

\* s[:n]
Slice(s, n) == SubSeq(s, 1, IF n < Len(s) THEN n ELSE Len(s))

\* len(s.strip())
StrippedLen(s) ==
    LET inked == { k \in 1..Len(s) : s[k] \notin Whitespace }
    IN  IF inked = {} THEN 0
        ELSE (CHOOSE k \in inked : \A j \in inked : j <= k)
             - (CHOOSE k \in inked : \A j \in inked : k <= j) + 1

\* s.split('\n')[:50], as the pairs <<first, last>> of the lines' positions in s.
ScannedLines(s) ==
    LET breaks == { k \in 1..Len(s) : s[k] = "\n" }
        starts == {1} \cup { k + 1 : k \in breaks }
        kept == { a \in starts : Cardinality({ k \in breaks : k < a }) < MAX_LINES }
    IN  { <<a, IF \E k \in breaks : k >= a
               THEN (CHOOSE k \in breaks : k >= a /\ \A j \in breaks : j >= a => k <= j) - 1
               ELSE Len(s)>> : a \in kept }

\* The character U+0060, which a TLA+ string cannot hold.
Grave == "GRAVE"

markdown_patterns ==
    << <<"#"," ">>, <<"#","#"," ">>, <<"#","#","#"," ">>, <<Grave,Grave,Grave>>, <<"-"," ">>,
       <<"*"," ">>, <<"1","."," ">>, <<"[">>, <<"*","*">>, <<"_">>, <<">"," ">> >>

\* The pairs (line, pattern) with the pattern in the line.
Indicators(s) ==
    { <<ln, p>> \in ScannedLines(s) \X (1..Len(markdown_patterns)) :
        Contains(SubSeq(s, ln[1], ln[2]), markdown_patterns[p]) }

indicator_count(s) == Cardinality(Indicators(s))

IsHtml(content) ==
    \/ content = <<>>
    \/ StartsWith(content, Doctype)
    \/ Contains(Slice(content, HTML_SCAN_LEN), HtmlTag)

\* Mutant: the length is taken before strip().
validate_unstripped(content) ==
    /\ ~IsHtml(content)
    /\ Len(content) >= MIN_CONTENT_LEN
    /\ indicator_count(content) >= MIN_INDICATORS

\* validate_markdown_content: TRUE when it returns, FALSE when it raises ValueError.
validate_markdown_content(content) ==
    /\ ~IsHtml(content)
    /\ StrippedLen(content) >= MIN_CONTENT_LEN
    /\ indicator_count(content) >= MIN_INDICATORS

\* The bodies the validator lets through, and len(text.rstrip()) of each body.
ValidBodies == { b \in Bodies : validate_markdown_content(TextOf(b)) }

BodyLens == [b \in Bodies |-> StrippedLen(<<"#">> \o TextOf(b)) - 1]

BodyLen(b) == BodyLens[b]

NetworkErrors == {"Timeout", "ConnectionError"}

NoTree == {}

DiscoverResponses ==
    [kind : NetworkErrors, status : {0}, hdr : {"absent"}, val : {0}, tree : {NoTree}]
    \cup [kind : {"response"}, status : {200}, hdr : {"absent"}, val : {0}, tree : Trees]
    \cup [kind : {"response"}, status : {403}, hdr : {"absent", "garbage"}, val : {0},
          tree : {NoTree}]
    \cup [kind : {"response"}, status : {403}, hdr : {"int"}, val : {-1, 4, 299},
          tree : {NoTree}]
    \cup [kind : {"response"}, status : {404, 429, 500}, hdr : {"absent"}, val : {0},
          tree : {NoTree}]

FetchResponses ==
    [kind : NetworkErrors, status : {0}, hdr : {"absent"}, val : {0}, body : {"X"}]
    \cup [kind : {"response"}, status : {200}, hdr : {"absent"}, val : {0}, body : Bodies]
    \cup [kind : {"response"}, status : {429}, hdr : {"absent", "garbage"}, val : {0},
          body : {"X"}]
    \cup [kind : {"response"}, status : {429}, hdr : {"int"}, val : {5}, body : {"X"}]
    \cup [kind : {"response"}, status : {403, 404, 500}, hdr : {"absent"}, val : {0},
          body : {"X"}]

(***************************************************************************)
(* What one pass through a try body does: it returns, it continues the     *)
(* loop after a rate-limit sleep, or it raises an exception of class exc.   *)
(***************************************************************************)
TryReturn(v) == [do |-> "return", exc |-> "none", delay |-> 0, value |-> v]

TryNone == [do |-> "none", exc |-> "none", delay |-> 0, value |-> <<>>]

TryContinue(wait) == [do |-> "continue", exc |-> "none", delay |-> wait, value |-> <<>>]

TryRaise(e) == [do |-> "raise", exc |-> e, delay |-> 0, value |-> <<>>]

\* response.raise_for_status(): HTTPError for 4xx and 5xx.
RaisesForStatus(resp) == resp.status >= HTTP_ERROR_FROM

\* Lines 140-151: the filter over the tree, then sorted().
DocsOf(tree) ==
    Sorted({ item.path : item \in
               { it \in tree : /\ it.type = "blob"
                               /\ StartsWith(it.path, DocsPrefix)
                               /\ EndsWith(it.path, MdExt) } })

\* Mutant: a 403 without X-RateLimit-Reset is raised as a request error.
DiscoverTryRetries403(resp) ==
    IF resp.kind # "response" THEN TryRaise(resp.kind)
    ELSE IF resp.status = 403 THEN
        IF resp.hdr = "absent" THEN TryRaise("HTTPError")
        ELSE IF resp.hdr = "garbage" THEN TryRaise("ValueError")
        ELSE LET wait_time == resp.val + 1
             IN  IF wait_time > 0 /\ wait_time < RESET_WAIT_LIMIT
                 THEN TryContinue(wait_time)
                 ELSE TryRaise("Exception")
    ELSE IF RaisesForStatus(resp) THEN TryRaise("HTTPError")
    ELSE TryReturn(DocsOf(resp.tree))

\* discover_docs_from_github, the try body.
DiscoverTry(resp) ==
    IF resp.kind # "response" THEN TryRaise(resp.kind)
    ELSE IF resp.status = 403 THEN
        IF resp.hdr = "absent" THEN TryRaise("Exception")
        ELSE IF resp.hdr = "garbage" THEN TryRaise("ValueError")
        ELSE LET wait_time == resp.val + 1
             IN  IF wait_time > 0 /\ wait_time < RESET_WAIT_LIMIT
                 THEN TryContinue(wait_time)
                 ELSE TryRaise("Exception")
    ELSE IF RaisesForStatus(resp) THEN TryRaise("HTTPError")
    ELSE TryReturn(DocsOf(resp.tree))

\* fetch_markdown_content, the try body.  The content is the response text.
FetchTry(resp) ==
    IF resp.kind # "response" THEN TryRaise(resp.kind)
    ELSE IF resp.status = 429 THEN
        IF resp.hdr = "garbage" THEN TryRaise("ValueError")
        ELSE TryContinue(IF resp.hdr = "int" THEN resp.val ELSE DEFAULT_RETRY_AFTER)
    ELSE IF RaisesForStatus(resp) THEN TryRaise("HTTPError")
    ELSE IF resp.body \in ValidBodies THEN TryReturn(<<resp.body>>)
    ELSE TryRaise("ValueError")

\* len(content.strip()) of the changelog with its header.
ChangelogLen(content) == HEADER_LEN + BodyLen(content[2])

\* fetch_changelog, the try body.  The content is header + response text.
ChangelogTry(resp) ==
    IF resp.kind # "response" THEN TryRaise(resp.kind)
    ELSE IF resp.status = 404 THEN TryNone
    ELSE IF resp.status = 429 THEN
        IF resp.hdr = "garbage" THEN TryRaise("ValueError")
        ELSE TryContinue(IF resp.hdr = "int" THEN resp.val ELSE DEFAULT_RETRY_AFTER)
    ELSE IF RaisesForStatus(resp) THEN TryRaise("HTTPError")
    ELSE LET content == <<"HEADER", resp.body>>
         IN  IF ChangelogLen(content) < MIN_CHANGELOG_LEN THEN TryNone
             ELSE TryReturn(content)

(***************************************************************************)
(* The except clauses and the loop `for attempt in range(MAX_RETRIES)`.    *)
(* A step of a loop is what one iteration ends in: "continue" (rate-limit  *)
(* sleep, next iteration), "retry" (backoff sleep, next iteration),        *)
(* "return", "none" (fetch_changelog returns None) or "raise".             *)
(***************************************************************************)
Min(a, b) == IF a < b THEN a ELSE b

\* delay = min(RETRY_DELAY * (2 ** attempt), MAX_RETRY_DELAY), before the jitter.
Backoff(attempt) == Min(RETRY_DELAY * (2 ^ attempt), MAX_RETRY_DELAY)

\* Mutant: the except clause catches network errors only.
IsNetworkError(exc) == exc \in NetworkErrors

\* except requests.exceptions.RequestException: HTTPError is one of its subclasses.
IsRequestException(exc) == exc \in NetworkErrors \cup {"HTTPError"}

Step(do, exc, slept, delay, value) ==
    [do |-> do, exc |-> exc, slept |-> slept, delay |-> delay, value |-> value]

\* Mutant: the last attempt backs off as well (attempt < MAX_RETRIES).
OnRequestExceptionOffByOne(attempt, giveUp) ==
    IF attempt < MAX_RETRIES
    THEN Step("retry", "none", "backoff", Backoff(attempt), <<>>)
    ELSE giveUp

\* The body of `except RequestException`: back off, or give up on the last attempt.
OnRequestException(attempt, giveUp) ==
    IF attempt < MAX_RETRIES - 1
    THEN Step("retry", "none", "backoff", Backoff(attempt), <<>>)
    ELSE giveUp

\* One iteration of a loop: the try body, then the except clause that matches.
Iteration(try, attempt, giveUp) ==
    IF try.do = "continue" THEN Step("continue", "none", "rate_limit", try.delay, <<>>)
    ELSE IF try.do = "raise" THEN
        IF IsRequestException(try.exc) THEN OnRequestException(attempt, giveUp)
        ELSE Step("raise", try.exc, "none", 0, <<>>)
    ELSE Step(try.do, "none", "none", 0, try.value)

Calls == {"discover", "fetch", "changelog"}

\* One iteration of the loop of discover_docs_from_github, fetch_markdown_content
\* or fetch_changelog, on attempt `attempt`, when the request comes back with resp.
Attempt(c, attempt, resp) ==
    CASE c = "discover" ->
            Iteration(DiscoverTry(resp), attempt, Step("raise", "Exception", "none", 0, <<>>))
      [] c = "fetch" ->
            Iteration(FetchTry(resp), attempt, Step("raise", "Exception", "none", 0, <<>>))
      [] c = "changelog" ->
            Iteration(ChangelogTry(resp), attempt, Step("none", "none", "none", 0, <<>>))

\* Mutant: every function raises after its loop.
AfterLoopRaises(c) == Step("raise", "Exception", "none", 0, <<>>)

\* The statement after the loop, reached when range(MAX_RETRIES) is used up.
AfterLoop(c) ==
    CASE c = "discover" -> Step("return", "none", "none", 0, <<>>)
      [] c = "fetch" -> Step("raise", "Exception", "none", 0, <<>>)
      [] c = "changelog" -> Step("none", "none", "none", 0, <<>>)

\* Mutant: `continue` repeats the iteration (a while loop with a counter).
AfterContinueStays(attempt) == attempt

\* The loop variable after `continue`: the for statement takes the next element.
AfterContinue(attempt) == attempt + 1

\* The loop variable after the loop body ran to its end (the backoff sleep).
AfterRetry(attempt) == attempt + 1

NextAttempt(step, attempt) ==
    IF step.do = "continue" THEN AfterContinue(attempt) ELSE AfterRetry(attempt)

LoopGoesOn(step) == step.do \in {"continue", "retry"}

Pending == [do |-> "pending", exc |-> "none", value |-> <<>>, requests |-> 0, waits |-> 0]

Outcome(step, requests, waits) ==
    [do |-> step.do, exc |-> step.exc, value |-> step.value,
     requests |-> requests, waits |-> waits]

\* A whole call, given the responses rs its requests come back with, in order.
RECURSIVE RunLoop(_, _, _, _, _)
RunLoop(c, attempt, rs, requests, waits) ==
    IF attempt >= MAX_RETRIES THEN Outcome(AfterLoop(c), requests, waits)
    ELSE IF requests >= Len(rs) THEN Pending
    ELSE LET step == Attempt(c, attempt, rs[requests + 1])
         IN  IF LoopGoesOn(step)
             THEN RunLoop(c, NextAttempt(step, attempt), rs, requests + 1,
                          IF step.do = "continue" THEN waits + 1 ELSE waits)
             ELSE Outcome(step, requests + 1, waits)

ResponsesOf(c) ==
    CASE c = "discover" -> DiscoverResponses
      [] c = "fetch" -> FetchResponses
      [] c = "changelog" -> { r \in FetchResponses : r.body # "HTML" }

(***************************************************************************)
(* State.                                                                  *)
(*   The output directory: disk.  One run of main(): pc, clock (the value   *)
(*   datetime.now() has during the run), and main's local variables.        *)
(*   One call of a fetch function, request by request: call, attempt,       *)
(*   resps (what each request of the call came back with and the sleep that *)
(*   followed) and outcome.                                                 *)
(*   History: written and deleted (the files this run wrote and unlinked),  *)
(*   startedEmpty (the first run found an empty directory).                 *)
(*   origin is the repository the runs mirror, where a specification fixes  *)
(*   it: its documents and its changelog.                                   *)
(*   courtesy is the time (ms) main slept after processing the latest path. *)
(*   history gives, for every logical name, the hash and last_updated of    *)
(*   its entry in the latest manifest saved with that name.                 *)
(*   input and output are the argument and the results of a function that   *)
(*   is applied on its own (the validator, the name derivation).            *)
(***************************************************************************)
VARIABLES disk, pc, clock, manifest, new_manifest, doc_files, i, successful, failed,
          failed_pages, fetched_files, result, exit_code, written, deleted,
          startedEmpty, origin, call, attempt, resps, outcome,
          courtesy, history, input, output

dirVars == <<disk, startedEmpty, origin>>
runVars == <<pc, clock, manifest, new_manifest, doc_files, i, successful, failed,
             failed_pages, fetched_files, result, exit_code, written, deleted, courtesy>>
callVars == <<call, attempt, resps, outcome>>
funVars == <<input, output>>
vars == <<dirVars, runVars, callVars, history, funVars>>

(***************************************************************************)
(* One call, request by request.                                           *)
(***************************************************************************)
Seen(resp, step) ==
    [kind |-> resp.kind, status |-> resp.status, hdr |-> resp.hdr,
     slept |-> step.slept, delay |-> step.delay]

IsWait(r) == r.slept = "rate_limit"

Waits(rs) == Cardinality({k \in 1..Len(rs) : IsWait(rs[k])})

\* A function is called: its loop starts at attempt 0.
BeginCall(c) ==
    /\ call = "none" \/ outcome.do # "pending"
    /\ call' = c
    /\ attempt' = 0
    /\ resps' = <<>>
    /\ outcome' = Pending
    /\ UNCHANGED <<dirVars, runVars, history, funVars>>

\* One iteration of the loop of call c: session.get(...) comes back with resp.
Request(c) ==
    /\ call = c
    /\ outcome.do = "pending"
    /\ attempt < MAX_RETRIES
    /\ \E resp \in ResponsesOf(c) :
         LET step == Attempt(c, attempt, resp)
             seen == Append(resps, Seen(resp, step))
             next == NextAttempt(step, attempt)
         IN  /\ resps' = seen
             /\ IF LoopGoesOn(step)
                THEN /\ attempt' = next
                     /\ outcome' = IF next >= MAX_RETRIES
                                   THEN Outcome(AfterLoop(c), Len(seen), Waits(seen))
                                   ELSE Pending
                ELSE /\ attempt' = attempt
                     /\ outcome' = Outcome(step, Len(seen), Waits(seen))
    /\ UNCHANGED <<call, dirVars, runVars, history, funVars>>

DiscoverRequest == Request("discover")

FetchRequest == Request("fetch")

ChangelogRequest == Request("changelog")

(***************************************************************************)
(* Files, hashes and the manifest.                                         *)
(*   A text is a sequence of blocks (a response body, or the changelog     *)
(*   header and a body).  A dict is a function; dict.get is Get.            *)
(***************************************************************************)
Absent == [kind |-> "absent"]

TextFile(content) == [kind |-> "text", text |-> content]

JsonFile(obj) == [kind |-> "json", obj |-> obj]

Garbage == [kind |-> "garbage"]

Exists(d, name) == d[name].kind # "absent"

\* hashlib.sha256(content.encode('utf-8')).hexdigest(): never the empty string,
\* and different for different contents.
sha256(content) == <<"sha256">> \o content

EmptyDict == <<>>

Get(dict, key, default) == IF key \in DOMAIN dict THEN dict[key] ELSE default

Put(dict, key, value) ==
    [k \in DOMAIN dict \cup {key} |-> IF k = key THEN value ELSE dict[k]]

FileNames ==
    { path_to_safe_filename(item.path) : item \in TreeUniverse }
        \cup {ChangelogName, MANIFEST_FILE}

\* load_manifest
load_manifest(d) ==
    LET f == d[MANIFEST_FILE]
    IN  IF f.kind = "json"
        THEN (IF "files" \in DOMAIN f.obj THEN f.obj ELSE Put(f.obj, "files", EmptyDict))
        ELSE [files |-> EmptyDict, last_updated |-> <<>>]

\* save_manifest: stamps last_updated and writes the whole manifest.
save_manifest(d, m, now) ==
    [d EXCEPT ![MANIFEST_FILE] = JsonFile(Put(m, "last_updated", <<now>>))]

\* content_has_changed
content_has_changed(content, old_hash) == sha256(content) # old_hash

\* Mutant: a file whose content is already on disk is not written again.
SyncFileComparesDisk(d, old, filename, content, now) ==
    LET old_entry == Get(old.files, filename, EmptyDict)
        old_hash == Get(old_entry, "hash", <<>>)
        changed == d[filename] # TextFile(content)
    IN  [disk |-> IF changed THEN [d EXCEPT ![filename] = TextFile(content)] ELSE d,
         wrote |-> changed,
         hash |-> IF changed THEN sha256(content) ELSE old_hash,
         last_updated |-> IF changed THEN now ELSE Get(old_entry, "last_updated", now)]

\* Lines 363-381 and 401-417 of main: compare with the old entry, write the file
\* when the content changed, and give the entry's hash and last_updated.
SyncFile(d, old, filename, content, now) ==
    LET old_entry == Get(old.files, filename, EmptyDict)
        old_hash == Get(old_entry, "hash", <<>>)
        changed == content_has_changed(content, old_hash)
    IN  [disk |-> IF changed THEN [d EXCEPT ![filename] = TextFile(content)] ELSE d,
         wrote |-> changed,
         hash |-> IF changed THEN sha256(content) ELSE old_hash,
         last_updated |-> IF changed THEN now ELSE Get(old_entry, "last_updated", now)]

\* Mutant: the manifest file is not spared.
FilesToUnlinkManifestToo(d, current_files, old) ==
    { filename \in (DOMAIN old.files) \ current_files : Exists(d, filename) }

\* Mutant: the files fetched in this run are not spared.
FilesToUnlinkFetchedToo(d, current_files, old) ==
    { filename \in DOMAIN old.files : filename # MANIFEST_FILE /\ Exists(d, filename) }

\* cleanup_old_files: the files it unlinks.
FilesToUnlink(d, current_files, old) ==
    { filename \in (DOMAIN old.files) \ current_files :
        filename # MANIFEST_FILE /\ Exists(d, filename) }

cleanup_old_files(d, current_files, old) ==
    [name \in DOMAIN d |->
        IF name \in FilesToUnlink(d, current_files, old) THEN Absent ELSE d[name]]

(***************************************************************************)
(* The output directory before the first run: empty, or left by someone    *)
(* else (a manifest that does not parse, a manifest edited by hand, a       *)
(* manifest without "files").                                               *)
(***************************************************************************)
N_a__b == path_to_safe_filename(P_ab)

EmptyDir == [name \in FileNames |-> Absent]

CorruptDir == [EmptyDir EXCEPT ![MANIFEST_FILE] = Garbage, ![N_a__b] = TextFile(<<"X">>)]

EditedDir ==
    [EmptyDir EXCEPT
        ![MANIFEST_FILE] =
            JsonFile([files |-> Put(Put(EmptyDict, MANIFEST_FILE, [original_path |-> MANIFEST_FILE]),
                                    N_a__b, [hash |-> sha256(<<"X">>)])]),
        ![N_a__b] = TextFile(<<"X">>)]

NoFilesDir ==
    [EmptyDir EXCEPT ![MANIFEST_FILE] = JsonFile([last_updated |-> <<0>>]),
                     ![ChangelogName] = TextFile(<<"HEADER", "X">>)]

\* The entries a saved manifest adds to the history.
Remember(h, m) ==
    [name \in DOMAIN h \cup DOMAIN m.files |->
        IF name \in DOMAIN m.files
        THEN [hash |-> m.files[name].hash, last_updated |-> m.files[name].last_updated]
        ELSE h[name]]

\* The directory as a run of main() at time 0 left it, having fetched docs/a/b.md
\* with content X and no changelog.
MirroredDir ==
    [EmptyDir EXCEPT
        ![MANIFEST_FILE] =
            JsonFile([files |-> Put(EmptyDict, N_a__b,
                                    [original_path |-> P_ab, hash |-> sha256(<<"X">>),
                                     last_updated |-> 0]),
                      last_updated |-> <<0>>]),
        ![N_a__b] = TextFile(<<"X">>)]

InitialDirs == {EmptyDir, CorruptDir, EditedDir, NoFilesDir, MirroredDir}

\* What the runs before the first one saved: nothing, but for MirroredDir.
HistoryOf(d) ==
    IF d = MirroredDir
    THEN Remember(EmptyDict, d[MANIFEST_FILE].obj)
    ELSE EmptyDict

(***************************************************************************)
(* One run of main().  A call of a fetch function is one step here: its    *)
(* outcome is any outcome the loop can end in, over every sequence of       *)
(* responses to its requests.  The run-level fields the code never reads    *)
(* back (fetch_metadata, base_url, description) are left out of the         *)
(* manifest.                                                                *)
(***************************************************************************)
OutcomesOf(c) ==
    { RunLoop(c, 0, rs, 0, 0) : rs \in [1..MAX_RETRIES -> ResponsesOf(c)] }

\* What main sees of a call: what it returned or raised.
Seeing(o) == [o EXCEPT !.requests = 0, !.waits = 0]

DiscoverOutcomes == OutcomesOf("discover")

FetchOutcomes == { Seeing(o) : o \in OutcomesOf("fetch") }

ChangelogOutcomes == { Seeing(o) : o \in OutcomesOf("changelog") }

NoResult == Pending

CHANGELOG_PATH == <<"C","H","A","N","G","E","L","O","G",".","m","d">>

\* Lines 317-342: datetime.now(), load_manifest, the statistics.
StartRun ==
    /\ pc \in {"idle", "exited"}
    /\ clock < MaxRuns
    /\ clock' = clock + 1
    /\ manifest' = load_manifest(disk)
    /\ new_manifest' = [files |-> EmptyDict]
    /\ doc_files' = <<>>
    /\ i' = 0
    /\ successful' = 0
    /\ failed' = 0
    /\ failed_pages' = <<>>
    /\ fetched_files' = {}
    /\ result' = NoResult
    /\ exit_code' = -1
    /\ written' = {}
    /\ deleted' = {}
    /\ courtesy' = 0
    /\ pc' = "discover"
    /\ UNCHANGED <<dirVars, callVars, history, funVars>>

\* Line 347: the call of discover_docs_from_github.
Discover(o) ==
    /\ pc = "discover"
    /\ result' = o
    /\ pc' = "discovered"
    /\ UNCHANGED <<dirVars, callVars, history, funVars, courtesy, clock, manifest, new_manifest, doc_files, i,
                   successful, failed, failed_pages, fetched_files, exit_code,
                   written, deleted>>

\* Mutant: an empty list of paths is not checked for; the loop runs over nothing.
AfterDiscoverGoesOn ==
    /\ pc = "discovered"
    /\ IF result.do = "raise"
       THEN /\ exit_code' = 1
            /\ pc' = "exited"
            /\ UNCHANGED <<doc_files, i>>
       ELSE /\ doc_files' = result.value
            /\ i' = 1
            /\ pc' = IF result.value = <<>> THEN "changelog" ELSE "fetch"
            /\ UNCHANGED exit_code
    /\ UNCHANGED <<dirVars, callVars, history, funVars, courtesy, clock, manifest, new_manifest, successful, failed,
                   failed_pages, fetched_files, result, written, deleted>>

\* Lines 346-354: sys.exit(1) when discovery raised or found nothing.
AfterDiscover ==
    /\ pc = "discovered"
    /\ IF result.do = "raise" \/ result.value = <<>>
       THEN /\ exit_code' = 1
            /\ pc' = "exited"
            /\ UNCHANGED <<doc_files, i>>
       ELSE /\ doc_files' = result.value
            /\ i' = 1
            /\ pc' = "fetch"
            /\ UNCHANGED exit_code
    /\ UNCHANGED <<dirVars, callVars, history, funVars, courtesy, clock, manifest, new_manifest, successful, failed,
                   failed_pages, fetched_files, result, written, deleted>>

\* Line 361: the call of fetch_markdown_content for doc_files[i].
Fetch(o) ==
    /\ pc = "fetch"
    /\ result' = o
    /\ pc' = "fetched"
    /\ UNCHANGED <<dirVars, callVars, history, funVars, courtesy, clock, manifest, new_manifest, doc_files, i,
                   successful, failed, failed_pages, fetched_files, exit_code,
                   written, deleted>>

\* Lines 361-393: the rest of the loop body for doc_files[i].
ProcessFile ==
    /\ pc = "fetched"
    /\ LET file_path == doc_files[i]
           filename == path_to_safe_filename(file_path)
           sync == SyncFile(disk, manifest, filename, result.value, clock)
       IN  IF result.do = "return"
           THEN /\ disk' = sync.disk
                /\ written' = IF sync.wrote THEN written \cup {filename} ELSE written
                /\ new_manifest' =
                     [new_manifest EXCEPT !.files =
                        Put(@, filename, [original_path |-> file_path,
                                          hash |-> sync.hash,
                                          last_updated |-> sync.last_updated])]
                /\ fetched_files' = fetched_files \cup {filename}
                /\ successful' = successful + 1
                /\ UNCHANGED <<failed, failed_pages>>
           ELSE /\ failed' = failed + 1
                /\ failed_pages' = Append(failed_pages, file_path)
                /\ UNCHANGED <<disk, written, new_manifest, fetched_files, successful>>
    /\ i' = i + 1
    /\ courtesy' = IF result.do = "return" /\ i < Len(doc_files) THEN RATE_LIMIT_DELAY ELSE 0
    /\ pc' = IF i < Len(doc_files) THEN "fetch" ELSE "changelog"
    /\ UNCHANGED <<startedEmpty, origin, callVars, history, funVars, clock, manifest, doc_files, result, exit_code,
                   deleted>>

\* Line 397: the call of fetch_changelog.
FetchChangelog(o) ==
    /\ pc = "changelog"
    /\ result' = o
    /\ pc' = "changelog_fetched"
    /\ UNCHANGED <<dirVars, callVars, history, funVars, courtesy, clock, manifest, new_manifest, doc_files, i,
                   successful, failed, failed_pages, fetched_files, exit_code,
                   written, deleted>>

\* Lines 397-420.  An exception of fetch_changelog is caught nowhere: the run
\* ends there with a traceback and exit status 1.
ProcessChangelog ==
    /\ pc = "changelog_fetched"
    /\ LET sync == SyncFile(disk, manifest, ChangelogName, result.value, clock)
       IN  CASE result.do = "return" ->
                  /\ disk' = sync.disk
                  /\ written' = IF sync.wrote THEN written \cup {ChangelogName} ELSE written
                  /\ new_manifest' =
                       [new_manifest EXCEPT !.files =
                          Put(@, ChangelogName, [original_path |-> CHANGELOG_PATH,
                                                 hash |-> sync.hash,
                                                 last_updated |-> sync.last_updated,
                                                 source |-> "gemini-cli-repository"])]
                  /\ fetched_files' = fetched_files \cup {ChangelogName}
                  /\ successful' = successful + 1
                  /\ pc' = "cleanup"
                  /\ UNCHANGED exit_code
             [] result.do = "none" ->
                  /\ pc' = "cleanup"
                  /\ UNCHANGED <<disk, written, new_manifest, fetched_files, successful,
                                 exit_code>>
             [] result.do = "raise" ->
                  /\ pc' = "exited"
                  /\ exit_code' = 1
                  /\ UNCHANGED <<disk, written, new_manifest, fetched_files, successful>>
    /\ UNCHANGED <<startedEmpty, origin, callVars, history, funVars, courtesy, clock, manifest, doc_files, i, failed,
                   failed_pages, result, deleted>>

\* Line 423: cleanup_old_files(docs_dir, fetched_files, manifest).
Cleanup ==
    /\ pc = "cleanup"
    /\ deleted' = FilesToUnlink(disk, fetched_files, manifest)
    /\ disk' = cleanup_old_files(disk, fetched_files, manifest)
    /\ pc' = "save"
    /\ UNCHANGED <<startedEmpty, origin, callVars, history, funVars, courtesy, clock, manifest, new_manifest, doc_files, i,
                   successful, failed, failed_pages, fetched_files, result, exit_code,
                   written>>

\* Line 439: save_manifest(docs_dir, new_manifest).
SaveManifest ==
    /\ pc = "save"
    /\ disk' = save_manifest(disk, new_manifest, clock)
    /\ history' = Remember(history, new_manifest)
    /\ pc' = "saved"
    /\ UNCHANGED <<startedEmpty, origin, callVars, funVars, courtesy, clock, manifest, new_manifest, doc_files, i,
                   successful, failed, failed_pages, fetched_files, result, exit_code,
                   written, deleted>>

\* Lines 449-457: exit status 1 when pages failed and nothing succeeded.
Exit ==
    /\ pc = "saved"
    /\ exit_code' = IF failed_pages # <<>> /\ successful = 0 THEN 1 ELSE 0
    /\ pc' = "exited"
    /\ UNCHANGED <<dirVars, callVars, history, funVars, courtesy, clock, manifest, new_manifest, doc_files, i,
                   successful, failed, failed_pages, fetched_files, result, written,
                   deleted>>

(***************************************************************************)
(* Specifications.                                                         *)
(***************************************************************************)
NoFun ==
    /\ input = [fn |-> "none", arg |-> <<>>]
    /\ output = <<>>

NoCall ==
    /\ call = "none"
    /\ attempt = 0
    /\ resps = <<>>
    /\ outcome = Pending

NoRun ==
    /\ pc = "idle"
    /\ clock = 0
    /\ manifest = [files |-> EmptyDict, last_updated |-> <<>>]
    /\ new_manifest = [files |-> EmptyDict]
    /\ doc_files = <<>>
    /\ i = 0
    /\ successful = 0
    /\ failed = 0
    /\ failed_pages = <<>>
    /\ fetched_files = {}
    /\ result = NoResult
    /\ exit_code = -1
    /\ written = {}
    /\ deleted = {}
    /\ courtesy = 0

AnyOrigin == [files |-> EmptyDict, changelog |-> "none"]

\* Runs of main() over one output directory, against any origin.
Init ==
    /\ disk \in InitialDirs
    /\ startedEmpty = (disk = EmptyDir)
    /\ origin = AnyOrigin
    /\ history = HistoryOf(disk)
    /\ NoFun
    /\ NoRun
    /\ NoCall

Next ==
    \/ StartRun
    \/ \E o \in DiscoverOutcomes : Discover(o)
    \/ AfterDiscover
    \/ \E o \in FetchOutcomes : Fetch(o)
    \/ ProcessFile
    \/ \E o \in ChangelogOutcomes : FetchChangelog(o)
    \/ ProcessChangelog
    \/ Cleanup
    \/ SaveManifest
    \/ Exit

Spec == Init /\ [][Next]_vars

\* Calls of the three fetch functions, request by request.
CallInit ==
    /\ disk = EmptyDir
    /\ startedEmpty = TRUE
    /\ origin = AnyOrigin
    /\ history = HistoryOf(disk)
    /\ NoFun
    /\ NoRun
    /\ NoCall

CallNext ==
    \/ \E c \in Calls : BeginCall(c)
    \/ DiscoverRequest
    \/ FetchRequest
    \/ ChangelogRequest

CallSpec == CallInit /\ [][CallNext]_vars

\* Runs of main() against an origin that does not change and answers every
\* request at once: the tree lists origin.files, a document request gives its
\* body, the changelog request gives origin.changelog or 404.
DocPaths == { p \in { item.path : item \in TreeUniverse } : DocsOf({[path |-> p, type |-> "blob"]}) # <<>> }

Origins ==
    [files : UNION { [S -> Bodies] : S \in SUBSET DocPaths }, changelog : {"none", "X", "Y"}]

Ok(field, payload) ==
    [x \in {"kind", "status", "hdr", "val", field} |->
        CASE x = "kind" -> "response"
          [] x = "status" -> 200
          [] x = "hdr" -> "absent"
          [] x = "val" -> 0
          [] x = field -> payload]

NotFound == [kind |-> "response", status |-> 404, hdr |-> "absent", val |-> 0, body |-> "X"]

TreeOf(o) == Ok("tree", { [path |-> p, type |-> "blob"] : p \in DOMAIN o.files })

ChangelogOf(o) == IF o.changelog = "none" THEN NotFound ELSE Ok("body", o.changelog)

Answer(c, resp) == RunLoop(c, 0, <<resp>>, 0, 0)

IdemInit ==
    /\ disk \in InitialDirs
    /\ startedEmpty = (disk = EmptyDir)
    /\ origin \in Origins
    /\ history = HistoryOf(disk)
    /\ NoFun
    /\ NoRun
    /\ NoCall

IdemNext ==
    \/ StartRun
    \/ Discover(Answer("discover", TreeOf(origin)))
    \/ AfterDiscover
    \/ Fetch(Seeing(Answer("fetch", Ok("body", origin.files[doc_files[i]]))))
    \/ ProcessFile
    \/ FetchChangelog(Seeing(Answer("changelog", ChangelogOf(origin))))
    \/ ProcessChangelog
    \/ Cleanup
    \/ SaveManifest
    \/ Exit

IdemSpec == IdemInit /\ [][IdemNext]_vars

(***************************************************************************)
(* The validator and the name derivation, each applied on its own: to a    *)
(* text made of up to MaxPieces pieces, and to a path made of a prefix, a   *)
(* stem and a suffix.                                                      *)
(***************************************************************************)
Pieces ==
    { <<"*", "*", "_">>, <<"#", " ">>, Rep("a", 10), Rep("a", 47), Rep(" ", 47),
      <<"\n">>, Rep("\n", 50), Doctype, HtmlTag, Rep("a", 96) }

RECURSIVE Concat(_)
Concat(ps) == IF ps = <<>> THEN <<>> ELSE Head(ps) \o Concat(Tail(ps))

Texts == { Concat(ps) : ps \in UNION { [1..n -> Pieces] : n \in 0..MaxPieces } }

PathPrefixes == { <<>>, DocsPrefix, DocsPrefix \o DocsPrefix, <<"/">> }

PathStems ==
    { <<>>, <<"a">>, <<"a", "/", "b">>, <<"a", "_", "_", "b">>, <<"d", "o", "c", "s">>,
      <<"a", ".", "m", "d", "/", "b">> }

PathSuffixes == { <<>>, MdExt, MdExt \o MdExt, <<".", "t", "x", "t">>, <<"/">> }

Paths == { pre \o stem \o suf : pre \in PathPrefixes, stem \in PathStems, suf \in PathSuffixes }

\* validate_markdown_content(input.arg)
Validate ==
    /\ input.fn = "validate"
    /\ output = <<>>
    /\ output' = <<validate_markdown_content(input.arg)>>
    /\ UNCHANGED <<dirVars, runVars, callVars, history, input>>

\* path_to_safe_filename, of the path and then of its own result.
DeriveName ==
    /\ input.fn = "name"
    /\ Len(output) < 2
    /\ output' = Append(output, path_to_safe_filename(IF output = <<>> THEN input.arg
                                                      ELSE output[Len(output)]))
    /\ UNCHANGED <<dirVars, runVars, callVars, history, input>>

PureInit ==
    /\ disk = EmptyDir
    /\ startedEmpty = TRUE
    /\ origin = AnyOrigin
    /\ history = EmptyDict
    /\ input \in [fn : {"validate"}, arg : Texts] \cup [fn : {"name"}, arg : Paths]
    /\ output = <<>>
    /\ NoRun
    /\ NoCall

PureNext ==
    \/ Validate
    \/ DeriveName

PureSpec == PureInit /\ [][PureNext]_vars

(***************************************************************************)
(* Properties.                                                             *)
(***************************************************************************)
SavedFiles == disk[MANIFEST_FILE].obj.files

\* A run has just written its manifest.
JustSaved == pc = "saved"

\* C1: whenever a run that started from an empty directory saves the manifest,
\* the hash of every entry of `files` is the SHA-256 of the content on disk under
\* that name.
C1_HashMatchesDisk ==
    (startedEmpty /\ JustSaved) =>
        \A name \in DOMAIN SavedFiles :
            /\ disk[name].kind = "text"
            /\ SavedFiles[name].hash = sha256(disk[name].text)

\* C2: in the second of two runs against an unchanged origin, no file is written
\* and every entry of the manifest has the hash and the last_updated it had in
\* the first run's manifest.
C2_SecondRunIdempotent ==
    (JustSaved /\ clock >= 2) =>
        /\ written = {}
        /\ \A name \in DOMAIN SavedFiles :
              /\ name \in DOMAIN manifest.files
              /\ SavedFiles[name].hash = manifest.files[name].hash
              /\ SavedFiles[name].last_updated = manifest.files[name].last_updated

\* The files a step removes from the directory.
Removed == { name \in DOMAIN disk : Exists(disk, name) /\ ~Exists(disk', name) }

\* The keys of the previous manifest that this run did not fetch.
Obsolete == (DOMAIN manifest.files) \ fetched_files

C3_WitnessManifestKey ==
    /\ JustSaved
    /\ MANIFEST_FILE \in Obsolete
    /\ deleted # {}

\* C4: whenever a run that started from an empty directory saves the manifest,
\* every key of `files` names a file that exists in the directory.
C4_KeysExistOnDisk ==
    (startedEmpty /\ JustSaved) => \A name \in DOMAIN SavedFiles : Exists(disk, name)

\* C4 witness: a later run saves an entry whose file it did not write in this run,
\* after reconciliation removed another file.
C4_Witness ==
    /\ startedEmpty
    /\ JustSaved
    /\ clock >= 2
    /\ deleted # {}
    /\ \E name \in DOMAIN SavedFiles : name \notin written

\* C5: the items fetched in one run (the discovered paths and the changelog) have
\* pairwise distinct logical names.
C5_NamesUnique ==
    /\ \A j, k \in 1..Len(doc_files) :
          j # k => path_to_safe_filename(doc_files[j]) # path_to_safe_filename(doc_files[k])
    /\ \A j \in 1..Len(doc_files) : path_to_safe_filename(doc_files[j]) # ChangelogName

\* C6: a run exits with code 1 exactly when discovery failed or found nothing, or
\* no document and no changelog was fetched; otherwise with code 0.
C6_ExitCode ==
    pc = "exited" =>
        /\ exit_code \in {0, 1}
        /\ exit_code = 1 <=> (doc_files = <<>> \/ successful = 0)

(***************************************************************************)
(* Properties of one call (CallSpec) and of discovery within a run.        *)
(***************************************************************************)
Ended == call \in Calls /\ outcome.do # "pending"

LastSeen == resps[Len(resps)]

\* The request failed as a request: a network error, or a status from 400 on.
FailedRequest(r) == r.kind \in NetworkErrors \/ r.status >= HTTP_ERROR_FROM

\* The statuses a function looks at before raise_for_status().
SpecialStatuses(c) ==
    CASE c = "discover" -> {403}
      [] c = "fetch" -> {429}
      [] c = "changelog" -> {404, 429}
      [] OTHER -> {}

\* A response with a status from 400 on that the function does not look at.
Unhandled(c, r) ==
    /\ r.kind = "response"
    /\ r.status >= HTTP_ERROR_FROM
    /\ r.status \notin SpecialStatuses(c)

\* C7 as stated: a call issues at most 3 requests, and a discovery or per-file
\* call whose 3 attempts are used up without success ends with an error.
C7_Original ==
    /\ Len(resps) <= MAX_RETRIES
    /\ (Ended /\ call \in {"discover", "fetch"} /\ Len(resps) = MAX_RETRIES
          /\ FailedRequest(LastSeen))
       => outcome.do = "raise"

\* C7: a call issues at most 3 requests; when its 3 attempts are used up without
\* success a per-file call raises, and a discovery call raises unless its third
\* response was a rate limit it waited out, after which it returns the empty list.
C7_AttemptBound ==
    /\ Len(resps) <= MAX_RETRIES
    /\ (Ended /\ Len(resps) = MAX_RETRIES /\ FailedRequest(LastSeen)) =>
          CASE call = "fetch" -> outcome.do = "raise"
            [] call = "discover" ->
                  IF IsWait(LastSeen)
                  THEN outcome.do = "return" /\ outcome.value = <<>>
                  ELSE outcome.do = "raise"
            [] call = "changelog" -> outcome.do \in {"none", "raise"}

\* C7 witness: discovery has used its 3 attempts, the third on a rate limit.
C7_Witness ==
    /\ call = "discover"
    /\ Ended
    /\ Len(resps) = MAX_RETRIES
    /\ IsWait(LastSeen)
    /\ ~IsWait(resps[1])

\* The call ended because its attempts ran out: its last request was waited out
\* or failed as a request that is retried.
GaveUp ==
    /\ Ended
    /\ resps # <<>>
    /\ \/ IsWait(LastSeen)
       \/ LastSeen.kind \in NetworkErrors
       \/ Unhandled(call, LastSeen)

\* C8 as stated: a rate-limit wait leaves the budget of 3 attempts whole, so a
\* discovery or per-file call that waited gives up only after 3 failed requests.
C8_Original ==
    (call \in {"discover", "fetch"} /\ GaveUp /\ Waits(resps) > 0)
        => Len(resps) - Waits(resps) = MAX_RETRIES

\* C8: a rate-limit wait uses up one of the 3 attempts: the call sleeps the wait
\* and goes on only when that was its first or second attempt, and a call gives
\* up after 3 requests, waited out or failed, taken together.
C8_WaitConsumesAttempt ==
    /\ outcome.do = "pending" => attempt = Len(resps)
    /\ \A k \in 1..Len(resps) :
          IsWait(resps[k]) =>
             /\ resps[k].delay > 0
             /\ k <= MAX_RETRIES
             /\ (k = Len(resps) /\ k < MAX_RETRIES) => outcome.do = "pending"
             /\ (k = Len(resps) /\ k = MAX_RETRIES) =>
                    outcome = Outcome(AfterLoop(call), k, Waits(resps))
    /\ GaveUp => Len(resps) = MAX_RETRIES

\* C8 witness: a per-file call ended after one rate-limit wait and two network
\* errors.
C8_Witness ==
    /\ call = "fetch"
    /\ Len(resps) = MAX_RETRIES
    /\ IsWait(resps[1])
    /\ resps[2].kind \in NetworkErrors
    /\ resps[3].kind \in NetworkErrors
    /\ outcome.do = "raise"

\* Discovery got a rate limit it waited out on every request.
OnlyWaits == result.requests > 0 /\ result.waits = result.requests

\* C9 as stated: when every discovery request is answered with a 403 whose reset
\* is a few seconds ahead, discovery does not end and the run reaches no exit.
C9_Original == OnlyWaits => pc \notin {"discovered", "exited"}

\* C9: against such an origin discovery ends after 3 requests with the empty
\* list, and the run exits with code 1 having touched nothing.
C9_DiscoveryGivesUp ==
    OnlyWaits =>
        /\ result.requests = MAX_RETRIES
        /\ result.do = "return"
        /\ result.value = <<>>
        /\ pc \in {"discovered", "exited"}
        /\ pc = "exited" => (exit_code = 1 /\ doc_files = <<>> /\ written = {} /\ deleted = {})

\* C9 witness: the run has exited after 3 waited-out discovery requests.
C9_Witness ==
    /\ pc = "exited"
    /\ result.waits = MAX_RETRIES
    /\ exit_code = 1

\* C10 as stated: a response with an unhandled status from 400 on ends a
\* discovery or per-file call at once.
C10_Original ==
    call \in {"discover", "fetch"} =>
        \A k \in 1..Len(resps) :
            Unhandled(call, resps[k]) => (k = Len(resps) /\ outcome.do = "raise")

\* C10: such a response is treated as a failed request: on the first and the
\* second attempt the call sleeps the backoff delay and sends a further request;
\* on the third attempt the call fails.
C10_StatusIsRetried ==
    \A k \in 1..Len(resps) :
        Unhandled(call, resps[k]) =>
            IF k < MAX_RETRIES
            THEN /\ resps[k].slept = "backoff"
                 /\ resps[k].delay = Min(RETRY_DELAY * (2 ^ (k - 1)), MAX_RETRY_DELAY)
                 /\ k = Len(resps) => outcome.do = "pending"
            ELSE /\ k = Len(resps)
                 /\ resps[k].slept = "none"
                 /\ outcome.do = (IF call = "changelog" THEN "none" ELSE "raise")

\* C10 witness: a per-file call sent a further request after a 404.
C10_Witness ==
    /\ call = "fetch"
    /\ Len(resps) >= 2
    /\ resps[1].status = 404
    /\ resps[2].status = 500

\* A 403 or 429 that gives the call no wait it can use: no header, a header
\* int() rejects, or (discovery) a reset outside the next 5 minutes.
NoUsableWait(r) ==
    /\ r.kind = "response"
    /\ r.status \in {403, 429}
    /\ (r.hdr \in {"absent", "garbage"} \/ ~IsWait(r))

\* A timeout, a connection error or a 5xx response.
NetworkOr5xx(r) == r.kind \in NetworkErrors \/ (r.kind = "response" /\ r.status >= 500)

\* C11 as stated: in a discovery or per-file call, every timeout, connection
\* error, 5xx and every 403 or 429 without a usable wait, on attempt 1 or 2, is
\* followed by a sleep and a further attempt.
C11_Original ==
    call \in {"discover", "fetch"} =>
        \A k \in 1..Len(resps) :
            (k < MAX_RETRIES /\ (NetworkOr5xx(resps[k]) \/ NoUsableWait(resps[k]))) =>
                /\ resps[k].slept # "none"
                /\ k = Len(resps) => outcome.do = "pending"

\* C11: in a discovery or per-file call, every timeout, connection error and 5xx
\* on attempt 1 or 2 is followed by the backoff sleep and a further attempt, and
\* on attempt 3 by the call's failure; a discovery 403 without a usable wait and a
\* per-file 429 whose Retry-After is not a number end the call at once with an
\* error; a per-file 429 without Retry-After is waited out for 60 seconds.
C11_TransientRetried ==
    call \in {"discover", "fetch"} =>
        \A k \in 1..Len(resps) :
            LET r == resps[k]
                last == k = Len(resps)
            IN  /\ NetworkOr5xx(r) =>
                      IF k < MAX_RETRIES
                      THEN /\ r.slept = "backoff"
                           /\ r.delay = Min(RETRY_DELAY * (2 ^ (k - 1)), MAX_RETRY_DELAY)
                           /\ last => outcome.do = "pending"
                      ELSE last /\ r.slept = "none" /\ outcome.do = "raise"
                /\ (NoUsableWait(r) /\ call = "discover" /\ r.status = 403) =>
                      last /\ r.slept = "none" /\ outcome.do = "raise"
                /\ (NoUsableWait(r) /\ call = "fetch" /\ r.status = 429) =>
                      IF r.hdr = "garbage"
                      THEN last /\ r.slept = "none" /\ outcome.do = "raise"
                      ELSE /\ r.slept = "rate_limit"
                           /\ r.delay = DEFAULT_RETRY_AFTER
                           /\ (last /\ k < MAX_RETRIES) => outcome.do = "pending"

\* C11 witness: a discovery call ended on its first request, a 403 without the
\* reset header.
C11_Witness ==
    /\ call = "discover"
    /\ Len(resps) = 1
    /\ resps[1].status = 403
    /\ resps[1].hdr = "absent"
    /\ outcome.do = "raise"

\* C12: whenever a run is about to save an entry whose content is the content of
\* the latest entry saved under that name (the hashes agree), the entry has the
\* last_updated of that latest entry, whatever the runs in between did.
C12_LastUpdatedKept ==
    pc = "save" =>
        \A name \in DOMAIN new_manifest.files \cap DOMAIN history :
            new_manifest.files[name].hash = history[name].hash =>
                new_manifest.files[name].last_updated = history[name].last_updated

\* The response is a 200 whose content the validator rejects.
FailsValidation(resp) ==
    /\ resp.kind = "response"
    /\ resp.status = 200
    /\ resp.body \notin ValidBodies

\* Whatever the responses, a per-file call whose k-th request comes back with
\* content that fails validation ends there with the validation error.
ValidationEndsCall ==
    \A rs \in [1..MAX_RETRIES -> FetchResponses] :
        LET o == RunLoop("fetch", 0, rs, 0, 0)
        IN  \A k \in 1..MAX_RETRIES :
                (o.requests >= k /\ FailsValidation(rs[k])) =>
                    (o.requests = k /\ o.do = "raise" /\ o.exc = "ValueError")

\* The current path's fetch ended with a ValueError: the validator's, or that of
\* int() on a Retry-After that is not a number; main treats both alike.
ValidationFailed == pc = "fetched" /\ result.do = "raise" /\ result.exc = "ValueError"

\* C13: a response that fails validation ends the call for its path; main then
\* appends the path to the failed list, counts one failure, writes no file, has
\* no entry under the path's logical name in the new manifest, and goes on with
\* the next path (or the changelog after the last one).
C13_ValidationNotRetried ==
    /\ ValidationEndsCall
    /\ [][ ValidationFailed =>
              /\ failed_pages' = Append(failed_pages, doc_files[i])
              /\ failed' = failed + 1
              /\ successful' = successful
              /\ disk' = disk
              /\ path_to_safe_filename(doc_files[i]) \notin DOMAIN new_manifest'.files
              /\ i' = i + 1
              /\ pc' = IF i < Len(doc_files) THEN "fetch" ELSE "changelog" ]_vars

\* C13 without the clause on the manifest: holds of every run.
C13_ButForTheName ==
    /\ ValidationEndsCall
    /\ [][ ValidationFailed =>
              /\ failed_pages' = Append(failed_pages, doc_files[i])
              /\ failed' = failed + 1
              /\ successful' = successful
              /\ disk' = disk
              /\ new_manifest' = new_manifest
              /\ i' = i + 1
              /\ pc' = IF i < Len(doc_files) THEN "fetch" ELSE "changelog" ]_vars

\* The validator has given its verdict on input.arg.
Validated == input.fn = "validate" /\ output # <<>>

\* The patterns that occur in one of the scanned lines.
MarkersIn(s) == { ind[2] : ind \in Indicators(s) }

\* C14 as stated: the validator rejects the empty string, every string that
\* starts with a DOCTYPE declaration and every string of 10 characters, and
\* accepts every string of at least 50 characters with at least two distinct
\* markers in its first 50 lines.
C14_Original ==
    Validated =>
        LET content == input.arg
            accepted == output[1]
        IN  /\ content = <<>> => ~accepted
            /\ StartsWith(content, Doctype) => ~accepted
            /\ Len(content) = 10 => ~accepted
            /\ (Len(content) >= MIN_CONTENT_LEN /\ Cardinality(MarkersIn(content)) >= 2)
                  => accepted

\* C14: the validator rejects the empty string, every string that starts with a
\* DOCTYPE declaration, every string with '<html' in its first 100 characters and
\* every string of fewer than 50 characters once stripped; it accepts every other
\* string with at least two distinct markers in its first 50 lines.
C14_ValidatorDecision ==
    Validated =>
        LET content == input.arg
            accepted == output[1]
            html == \/ StartsWith(content, Doctype)
                    \/ \E k \in 1..(HTML_SCAN_LEN - Len(HtmlTag) + 1) :
                          /\ k + Len(HtmlTag) - 1 <= Len(content)
                          /\ \A j \in 1..Len(HtmlTag) : content[k + j - 1] = HtmlTag[j]
            short == \A a, b \in 1..Len(content) :
                        (content[a] \notin Whitespace /\ content[b] \notin Whitespace)
                            => b - a + 1 < MIN_CONTENT_LEN
        IN  /\ content = <<>> => ~accepted
            /\ html => ~accepted
            /\ short => ~accepted
            /\ (~html /\ ~short /\ Cardinality(MarkersIn(content)) >= 2) => accepted

\* C14 witness: the validator rejected a text of 50 characters with two distinct
\* markers, 47 of its characters being trailing blanks.
C14_Witness ==
    /\ Validated
    /\ Len(input.arg) = MIN_CONTENT_LEN
    /\ Cardinality(MarkersIn(input.arg)) = 2
    /\ input.arg[Len(input.arg)] = " "
    /\ output = <<FALSE>>

\* The name derivation was applied to input.arg and then to its own result.
DerivedTwice == input.fn = "name" /\ Len(output) = 2

\* C15 as stated: there is a path whose derived name is not a fixed point of the
\* derivation.
C15_Original ==
    DerivedTwice =>
        \E p \in Paths :
            path_to_safe_filename(path_to_safe_filename(p)) # path_to_safe_filename(p)

\* C15: the derivation is idempotent: applied to a derived name it gives that
\* name back, for every path.
C15_Idempotent == DerivedTwice => output[2] = output[1]

\* C15 witness: the derivation was applied twice to a path under docs/ with a
\* directory separator, and changed it the first time.
C15_Witness ==
    /\ DerivedTwice
    /\ input.arg = P_ab
    /\ output[1] # input.arg

\* A run is under way, or has ended without saving, over a manifest file that
\* does not parse.
Unparsed == pc # "idle" /\ disk[MANIFEST_FILE] = Garbage

\* C16: when the manifest file does not parse, load_manifest gives the empty
\* manifest and the run goes on as a first run: every file fetched so far was
\* written and is dated now, and cleanup deletes nothing.
C16_UnparsableManifest ==
    /\ disk[MANIFEST_FILE] = Garbage =>
          load_manifest(disk) = [files |-> EmptyDict, last_updated |-> <<>>]
    /\ Unparsed =>
          /\ manifest = [files |-> EmptyDict, last_updated |-> <<>>]
          /\ written = fetched_files
          /\ \A name \in fetched_files :
                /\ disk[name].kind = "text"
                /\ new_manifest.files[name].hash = sha256(disk[name].text)
                /\ new_manifest.files[name].last_updated = clock
          /\ deleted = {}
          /\ pc \in {"cleanup", "save"} => FilesToUnlink(disk, fetched_files, manifest) = {}

\* C16 witness: over an unparsable manifest and a file a__b.md with content X, the
\* run fetched X for a__b.md, wrote it again and has passed cleanup.
C16_Witness ==
    /\ Unparsed
    /\ pc = "save"
    /\ N_a__b \in written
    /\ disk[N_a__b] = TextFile(<<"X">>)
    /\ clock = 1

\* A run has ended in which discovery found paths and nothing was fetched, no
\* document and no changelog.
TotalFailure == pc = "exited" /\ doc_files # <<>> /\ successful = 0

\* What C17 says of such a run: it exits with code 1 after cleanup and save, no
\* file of the previous manifest is left on disk and the saved manifest has no
\* files.
Reconciled ==
    /\ exit_code = 1
    /\ \A name \in DOMAIN manifest.files \ {MANIFEST_FILE} : ~Exists(disk, name)
    /\ disk[MANIFEST_FILE].kind = "json"
    /\ disk[MANIFEST_FILE].obj.files = EmptyDict
    /\ disk[MANIFEST_FILE].obj.last_updated = <<clock>>

\* C17: a run in which discovery found paths, every fetch failed and no changelog
\* was obtained reconciles and saves before it exits with code 1: every file of
\* the previous manifest is deleted and the saved manifest has no files.
C17_TotalFailureReconciles == TotalFailure => Reconciled

\* The same of the runs in which fetch_changelog returned None.
C17_ButForTheCrash == (TotalFailure /\ result.do = "none") => Reconciled

\* The discovery call of the run raised, or returned no path.
DiscoveryFailed == pc = "discovered" /\ (result.do = "raise" \/ result.value = <<>>)

\* C18: when discovery fails or finds no path, the run exits with code 1 at once:
\* no fetch of a document or of the changelog is made, and no file of the
\* directory, the manifest file included, is written or deleted from the start
\* of the run to its end.
C18_DiscoveryFailureTouchesNothing ==
    /\ [][DiscoveryFailed => pc' = "exited" /\ exit_code' = 1 /\ disk' = disk]_vars
    /\ [][pc' \in {"discover", "discovered"} => disk' = disk]_vars
    /\ [](pc \in {"discover", "discovered"} =>
            /\ manifest = load_manifest(disk)
            /\ written = {} /\ deleted = {} /\ fetched_files = {}
            /\ successful = 0 /\ failed = 0)
    /\ []((pc = "exited" /\ doc_files = <<>>) =>
            /\ exit_code = 1
            /\ written = {} /\ deleted = {} /\ fetched_files = {}
            /\ successful = 0 /\ failed = 0
            /\ result.do = "raise" \/ result.value = <<>>)

\* C18 witness: a run over a mirrored directory has exited with code 1 after a
\* discovery that raised, the directory being as it was.
C18_Witness ==
    /\ pc = "exited"
    /\ doc_files = <<>>
    /\ result.do = "raise"
    /\ exit_code = 1
    /\ clock = 1
    /\ disk = MirroredDir

\* C19: before the first request for every discovered path but the first, the run
\* has slept RATE_LIMIT_DELAY since the processing of the path before it, whether
\* that path succeeded or failed; after the last path it has not.
C19_CourtesyDelay ==
    /\ (pc = "fetch" /\ i > 1) => courtesy = RATE_LIMIT_DELAY
    /\ pc = "changelog" => courtesy = 0

\* The same where the path before succeeded.
C19_AfterSuccess ==
    /\ (pc = "fetch" /\ i > 1 /\ result.do = "return") => courtesy = RATE_LIMIT_DELAY
    /\ (pc = "fetch" /\ i > 1 /\ result.do = "raise") => courtesy = 0
    /\ pc = "changelog" => courtesy = 0

====
